---- MODULE Spec2Model ----
(***************************************************************************)
(* Model of the URA vacant-sites tracker (ura_tracker_with_form.py):       *)
(* identifier inference (identify_key_columns), the snapshot diff, report  *)
(* and form loop of compare_excel_files with submit_to_form_with_xpaths,   *)
(* the run of main (download_vacant_sites_file, find_previous_excel_file,  *)
(* comparison), and URAScraper.run of the scraping script.                 *)
(*                                                                         *)
(* A DataFrame is a record [cols, index, rows]: cols is the ordered column *)
(* names, index the row labels (0..n-1 after read_excel) and rows the      *)
(* cell tuples, rows[r][p] being the cell of row r in column cols[p].      *)
(* A column name is a sequence of characters, so that the substring test   *)
(* of identify_key_columns is computed and not assumed.                    *)
(***************************************************************************)
EXTENDS Integers, Sequences, FiniteSets, TLC

VARIABLES
    newer_file,     \* content of the newer snapshot file
    older_file,     \* content of the older snapshot file
    pc,             \* position of the run
    df_newer,       \* compare_excel_files: local df_newer (after restriction)
    df_older,       \* compare_excel_files: local df_older (after restriction)
    key_columns,    \* value returned by identify_key_columns
    warned,         \* the "No unique identifier columns found" warning was printed
    new_entries,    \* compare_excel_files: local new_entries
    reports,        \* report files written to REPORTS_DIR, in order
    entry_i,        \* number of new entries already processed by the form loop
    handed,         \* entry dicts passed to submit_to_form_with_xpaths, in order
    submission,     \* what the latest iteration of the form loop did
    outcome,        \* how compare_excel_files ended
    returned,       \* what the caller of compare_excel_files gets back
    log,            \* diagnostics printed so far, in order
    store,          \* files in DOWNLOAD_DIR: a set of [name, content, complete]
    today,          \* date of datetime.now()
    new_file,       \* main: local new_file
    previous_file,  \* main: local previous_file
    sites_data,     \* URAScraper.run: local sites_data
    steps,          \* URAScraper.run: the methods called so far, in order
    saved,          \* URAScraper.run: what save_data returned
    run_returned    \* what URAScraper.run returned

compare_vars == << newer_file, older_file, df_newer, df_older, key_columns, warned,
                   new_entries, reports, entry_i, handed, submission, outcome,
                   returned >>

main_vars == << store, today, new_file, previous_file >>

scraper_vars == << sites_data, steps, saved, run_returned >>

vars == << pc, log, compare_vars, main_vars, scraper_vars >>

-----------------------------------------------------------------------------
(* Bounds of the model *)

MaxRows == 2

MaxOldRows == 1

\* Dates are 1..MaxDate; DOWNLOAD_DIR starts with at most MaxFiles files.
MaxDate == 2

MaxFiles == 2

\* The listing page holds at most MaxSites sites.
MaxSites == 2

-----------------------------------------------------------------------------
(* Column names and cell values *)

col_id == << "i", "d" >>

col_Notes == << "N", "o", "t", "e", "s" >>

col_Area == << "A", "r", "e", "a" >>

col_Price == << "P", "r", "i", "c", "e" >>

NaN == "NaN"

CellValues == { "5", "7", NaN }

-----------------------------------------------------------------------------
(* Sequence helpers *)

Range(s) == { s[i] : i \in DOMAIN s }

Pos(s, x) == CHOOSE i \in DOMAIN s : s[i] = x

RECURSIVE Perms(_)
Perms(S) ==
    IF S = {} THEN { << >> }
    ELSE UNION { { << x >> \o p : p \in Perms(S \ {x}) } : x \in S }

RECURSIVE RowSeqs(_, _)
RowSeqs(width, n) ==
    IF n = 0 THEN { << >> }
    ELSE LET shorter == RowSeqs(width, n - 1)
         IN  shorter \cup
             { rs \o << r >> :
                 rs \in { s \in shorter : Len(s) = n - 1 },
                 r \in [1..width -> CellValues] }

-----------------------------------------------------------------------------
(* pandas primitives used by the program *)

RangeIndex(n) == [i \in 1..n |-> i - 1]

DataFrame(cols, rows) ==
    [cols |-> cols, index |-> RangeIndex(Len(rows)), rows |-> rows]

len(df) == Len(df.rows)

column(df, col) == [r \in 1..len(df) |-> df.rows[r][Pos(df.cols, col)]]

nunique(series) == Cardinality(Range(series) \ {NaN})

select_columns(df, columns) ==
    [cols  |-> columns,
     index |-> df.index,
     rows  |-> [r \in 1..len(df) |->
                  [p \in 1..Len(columns) |-> df.rows[r][Pos(df.cols, columns[p])]]]]

subset_values(df, subset, r) ==
    [p \in 1..Len(subset) |-> df.rows[r][Pos(df.cols, subset[p])]]

duplicated_sum(df, subset) ==
    Cardinality({ r \in 1..len(df) :
        \E q \in 1..(r - 1) : subset_values(df, subset, q) = subset_values(df, subset, r) })

drop_duplicates(s) ==
    LET keep == SelectSeq([i \in DOMAIN s |-> i],
                          LAMBDA i : \A j \in 1..(i - 1) : s[j] # s[i])
    IN  [k \in DOMAIN keep |-> s[keep[k]]]

\* Faulty variant of loc: the selected rows come out last row first.
loc_reversed(df, mask) ==
    LET keep == SelectSeq([r \in 1..len(df) |-> r], LAMBDA r : mask[r])
        n    == Len(keep)
    IN  [cols  |-> df.cols,
         index |-> [k \in DOMAIN keep |-> df.index[keep[n + 1 - k]]],
         rows  |-> [k \in DOMAIN keep |-> df.rows[keep[n + 1 - k]]]]

loc(df, mask) ==
    LET keep == SelectSeq([r \in 1..len(df) |-> r], LAMBDA r : mask[r])
    IN  [cols  |-> df.cols,
         index |-> [k \in DOMAIN keep |-> df.index[keep[k]]],
         rows  |-> [k \in DOMAIN keep |-> df.rows[keep[k]]]]

to_dict(df, r) == [c \in Range(df.cols) |-> df.rows[r][Pos(df.cols, c)]]

-----------------------------------------------------------------------------
(* str.lower and the substring test `pattern in col` *)

Uppercase == << "A", "B", "C", "D", "E", "F", "G", "H", "I", "J", "K", "L", "M",
                "N", "O", "P", "Q", "R", "S", "T", "U", "V", "W", "X", "Y", "Z" >>

Lowercase == << "a", "b", "c", "d", "e", "f", "g", "h", "i", "j", "k", "l", "m",
                "n", "o", "p", "q", "r", "s", "t", "u", "v", "w", "x", "y", "z" >>

\* Faulty variant of lower: the name is left as written.
lower_identity(s) == s

lower(s) ==
    [i \in DOMAIN s |->
        IF \E k \in DOMAIN Uppercase : Uppercase[k] = s[i]
        THEN Lowercase[Pos(Uppercase, s[i])]
        ELSE s[i]]

contains(s, pattern) ==
    \E i \in 1..(Len(s) - Len(pattern) + 1) :
        SubSeq(s, i, i + Len(pattern) - 1) = pattern

-----------------------------------------------------------------------------
(* identify_key_columns *)

id_patterns ==
    << << "i", "d" >>,
       << "k", "e", "y" >>,
       << "c", "o", "d", "e" >>,
       << "n", "o" >>,
       << "n", "u", "m", "b", "e", "r" >>,
       << "l", "o", "t" >>,
       << "n", "a", "m", "e" >>,
       << "l", "o", "c", "a", "t", "i", "o", "n" >> >>

potential_keys(df) ==
    SelectSeq(df.cols,
              LAMBDA col : \E k \in DOMAIN id_patterns :
                              contains(lower(col), lower(id_patterns[k])))

\* Faulty variant of is_unique: distinct among the non-missing cells only.
is_unique_dropna(df, col) ==
    nunique(column(df, col)) =
        Cardinality({ r \in 1..len(df) : column(df, col)[r] # NaN })

is_unique(df, col) == nunique(column(df, col)) = len(df)

\* Faulty variant of first_true: the last position that holds TRUE.
last_true(flags) ==
    CHOOSE i \in DOMAIN flags : flags[i] /\ \A j \in (i + 1)..Len(flags) : ~flags[j]

\* The position at which a `for ...: if ...: return` loop returns.
first_true(flags) ==
    CHOOSE i \in DOMAIN flags : flags[i] /\ \A j \in 1..(i - 1) : ~flags[j]

\* A returned Python list of column names, and a returned bare str (one name).
AsList(names) == [type |-> "list", names |-> names]

AsStr(name) == [type |-> "str", names |-> << name >>]

identify_key_columns(df) ==
    LET pk         == potential_keys(df)
        combos     == drop_duplicates(pk)
        pk_unique  == [i \in DOMAIN pk |-> is_unique(df, pk[i])]
        combo_free == [i \in DOMAIN combos |-> duplicated_sum(df, << combos[i] >>) = 0]
        any_unique == [i \in DOMAIN df.cols |-> is_unique(df, df.cols[i])]
    IN  IF pk # << >> /\ TRUE \in Range(pk_unique)
        THEN [ret |-> AsList(<< pk[first_true(pk_unique)] >>), warning |-> FALSE]
        ELSE IF Len(pk) >= 2 /\ TRUE \in Range(combo_free)
        THEN [ret |-> AsStr(combos[first_true(combo_free)]), warning |-> FALSE]
        ELSE IF TRUE \in Range(any_unique)
        THEN [ret |-> AsList(<< df.cols[first_true(any_unique)] >>), warning |-> FALSE]
        ELSE [ret |-> AsList(df.cols), warning |-> TRUE]

-----------------------------------------------------------------------------
(* compare_excel_files: restriction to common columns, key, diff *)

\* df.set_index(keys).index: the key tuple of every row, in row order.
set_index(df, keys) == [r \in 1..len(df) |-> subset_values(df, keys.names, r)]

\* set_index([]) builds a MultiIndex of no levels: pandas raises ValueError.
set_index_raises(keys) == keys.names = << >>

\* Faulty variant of index_difference: the operands are exchanged.
index_difference_swapped(a, b) == Range(b) \ Range(a)

\* Faulty variant of index_difference: a label with a missing value matches nothing.
index_difference_nan(a, b) ==
    { k \in Range(a) : k \notin Range(b) \/ NaN \in Range(k) }

\* Index.difference: the distinct labels of a that are no label of b
\* (a missing value matches a missing value).
index_difference(a, b) == Range(a) \ Range(b)

\* Faulty variant of isin: only the first row of each label is marked.
isin_first(index, values) ==
    [r \in DOMAIN index |->
        index[r] \in values /\ \A q \in 1..(r - 1) : index[q] # index[r]]

isin(index, values) == [r \in DOMAIN index |-> index[r] \in values]

NoFrame == DataFrame(<< >>, << >>)

NoKey == [type |-> "unset", names |-> << >>]

compare_locals(newer, older, common_columns) ==
    LET differ  == Range(newer.cols) # Range(older.cols)
        dn      == IF differ THEN select_columns(newer, common_columns) ELSE newer
        do      == IF differ THEN select_columns(older, common_columns) ELSE older
        k       == identify_key_columns(dn)
        raises  == set_index_raises(k.ret)
        idx_n   == set_index(dn, k.ret)
        idx_o   == set_index(do, k.ret)
        new_idx == index_difference(idx_n, idx_o)
    IN  [df_newer    |-> dn,
         df_older    |-> do,
         key_columns |-> k.ret,
         warning     |-> k.warning,
         raises      |-> raises,
         new_entries |-> IF raises THEN NoFrame ELSE loc(dn, isin(idx_n, new_idx))]

\* Faulty variant of make_report: the two row counts exchanged.
make_report_swapped(dn, do, ne) ==
    [summary |-> [rows_in_newer_file |-> len(do),
                  rows_in_older_file |-> len(dn),
                  new_entries_found  |-> len(ne)],
     detail  |-> [cols |-> ne.cols, rows |-> ne.rows]]

\* The two sheets of the report workbook ('Summary' without its time stamp
\* and file names, 'New Entries' written with index=False).
make_report(dn, do, ne) ==
    [summary |-> [rows_in_newer_file |-> len(dn),
                  rows_in_older_file |-> len(do),
                  new_entries_found  |-> len(ne)],
     detail  |-> [cols |-> ne.cols, rows |-> ne.rows]]

-----------------------------------------------------------------------------
(* Inputs: the snapshot files handed to compare_excel_files *)

Frames(cols, maxrows) ==
    { DataFrame(cols, rows) : rows \in RowSeqs(Len(cols), maxrows) }

File(df) == [readable |-> TRUE, data |-> df]

Unreadable == [readable |-> FALSE, data |-> NoFrame]

\* << columns of the newer snapshot, columns of the older snapshot, further
\*    columns of the older snapshot that hold "7" in every row, largest
\*    number of rows of the newer snapshot, largest number of rows of an
\*    older snapshot that is unrelated to the newer one >>
SchemaPairs ==
    { << << col_id >>,            << col_id >>,            << >>,          MaxRows,    MaxOldRows >>,
      << << col_id, col_Notes >>, << col_id >>,            << >>,          MaxRows,    MaxOldRows >>,
      << << col_id >>,            << col_Area >>,          << >>,          MaxRows,    MaxOldRows >>,
      << << col_Area >>,          << col_Area >>,          << >>,          MaxRows,    MaxOldRows >>,
      << << col_Notes, col_id >>, << col_id, col_Notes >>, << >>,          MaxRows,    0 >>,
      << << col_id, col_Notes >>, << col_Notes, col_id >>, << col_Area >>, MaxOldRows, MaxOldRows >> }

with_columns(df, extra) ==
    DataFrame(df.cols \o extra,
              [r \in 1..len(df) |-> df.rows[r] \o [p \in 1..Len(extra) |-> "7"]])

\* The older snapshot: any small snapshot of its schema or, when the column
\* sets are the same, the newer snapshot without its last rows (with the
\* columns in the newer snapshot's order or in the older schema's order).
OlderFrames(newer, sp) ==
    { with_columns(f, sp[3]) : f \in Frames(sp[2], sp[5]) } \cup
    IF Range(sp[2]) = Range(newer.cols) /\ sp[3] = << >>
    THEN UNION { { DataFrame(newer.cols, SubSeq(newer.rows, 1, k)),
                   select_columns(DataFrame(newer.cols, SubSeq(newer.rows, 1, k)), sp[2]) } :
                 k \in 0..len(newer) }
    ELSE {}

\* A file that pd.read_excel cannot load is paired with a one-column snapshot.
InputFiles(newer, older) ==
    \/ \E sp \in SchemaPairs :
         \E n \in Frames(sp[1], sp[4]) :
           \E o \in OlderFrames(n, sp) : newer = File(n) /\ older = File(o)
    \/ \E o \in Frames(<< col_id >>, MaxOldRows) : newer = Unreadable /\ older = File(o)
    \/ \E n \in Frames(<< col_id >>, MaxRows) : newer = File(n) /\ older = Unreadable

-----------------------------------------------------------------------------
(* File names of DOWNLOAD_DIR *)

\* A file name "<stamp>_ura-vacant-sites<suffix>.<ext>": stamp is << d >> for
\* the eight digits of date d and << >> when the name has no such prefix.
FileName(stamp, suffix, ext) == [stamp |-> stamp, suffix |-> suffix, ext |-> ext]

\* Python's None where a path is expected.
NoneFile == FileName(<< >>, "", "None")

\* compare_excel_files is run on its own: main has no state.
NoMain ==
    /\ store = {}
    /\ today = 1
    /\ new_file = NoneFile
    /\ previous_file = NoneFile

\* URAScraper is not run.
NoScraper ==
    /\ sites_data = << >>
    /\ steps = << >>
    /\ saved = "none"
    /\ run_returned = "running"

-----------------------------------------------------------------------------
(* submit_to_form_with_xpaths *)

\* What the user may type at an input() prompt.
Answers == { << "y" >>, << "Y" >>, << "n" >> }

\* What happens during one call: started tells whether webdriver.Chrome()
\* returned a driver, filled whether everything up to and including the
\* 'Submit the form?' prompt went through without an exception, submit_choice
\* the answer to that prompt, click_ok whether the submit button was found
\* and clicked, error_screenshot_ok whether driver.save_screenshot in the
\* except handler went through.
FormRuns ==
    [started : BOOLEAN, filled : BOOLEAN, submit_choice : Answers,
     click_ok : BOOLEAN, error_screenshot_ok : BOOLEAN]

\* The outcome of a call: whether the final prompt was reached and answered
\* with y, whether the submit button was clicked, the state the browser is
\* left in, and whether an exception left the function.
FormResult(asked, yes, clicked, driver) ==
    [asked |-> asked, yes |-> yes, clicked |-> clicked, driver |-> driver,
     raised |-> FALSE]

\* The loop iteration did not call submit_to_form_with_xpaths.
NotCalled == FormResult(FALSE, FALSE, FALSE, "none")

\* The form loop has not run an iteration.
NoSubmission == [entry |-> 0, confirmed |-> FALSE, form |-> NotCalled]

\* Faulty variant of submit_to_form_with_xpaths: the button is clicked
\* whatever the answer to 'Submit the form?'.
submit_to_form_unconfirmed(run) ==
    IF ~run.started THEN FormResult(FALSE, FALSE, FALSE, "none")
    ELSE IF ~run.filled
    THEN FormResult(FALSE, FALSE, FALSE,
                    IF run.error_screenshot_ok THEN "quit" ELSE "open")
    ELSE FormResult(TRUE, lower(run.submit_choice) = << "y" >>, run.click_ok, "quit")

submit_to_form_with_xpaths(run) ==
    IF ~run.started
    THEN \* driver is unbound: the handler's own try fails on its first line
         FormResult(FALSE, FALSE, FALSE, "none")
    ELSE IF ~run.filled
    THEN \* except handler: save_screenshot, then quit, in one try
         FormResult(FALSE, FALSE, FALSE,
                    IF run.error_screenshot_ok THEN "quit" ELSE "open")
    ELSE IF lower(run.submit_choice) = << "y" >>
    THEN FormResult(TRUE, TRUE, run.click_ok, "quit")
    ELSE FormResult(TRUE, FALSE, FALSE, "quit")

-----------------------------------------------------------------------------
(* The run of compare_excel_files *)

Init ==
    /\ InputFiles(newer_file, older_file)
    /\ pc = "compare"
    /\ df_newer = NoFrame
    /\ df_older = NoFrame
    /\ key_columns = NoKey
    /\ warned = FALSE
    /\ new_entries = NoFrame
    /\ reports = << >>
    /\ entry_i = 0
    /\ handed = << >>
    /\ submission = NoSubmission
    /\ outcome = "none"
    /\ returned = "running"
    /\ log = << >>
    /\ NoMain
    /\ NoScraper

\* compare_excel_files up to the first prompt of the form loop. common_columns
\* is the order in which list(set & set) yields the common columns; write_ok
\* tells whether pd.ExcelWriter could write the report.
CompareExcelFiles ==
    /\ pc = "compare"
    /\ UNCHANGED scraper_vars
    /\ IF ~(newer_file.readable /\ older_file.readable)
       THEN /\ outcome' = "load_error"
            /\ returned' = "None"
            /\ log' = Append(log, "Error loading Excel files")
            /\ pc' = "done"
            /\ UNCHANGED << df_newer, df_older, key_columns, warned, new_entries, reports >>
       ELSE \E common_columns \in
                 Perms(Range(newer_file.data.cols) \cap Range(older_file.data.cols)),
               write_ok \in BOOLEAN :
            \E l \in { compare_locals(newer_file.data, older_file.data, common_columns) } :
                /\ df_newer' = l.df_newer
                /\ df_older' = l.df_older
                /\ key_columns' = l.key_columns
                /\ warned' = l.warning
                /\ new_entries' = l.new_entries
                /\ IF l.raises
                   THEN /\ outcome' = "ValueError" /\ returned' = "raised"
                        /\ pc' = "done"
                        /\ UNCHANGED << reports, log >>
                   ELSE IF len(l.new_entries) = 0
                   THEN /\ outcome' = "ok" /\ returned' = "None"
                        /\ log' = Append(log, "No new entries found between the files.")
                        /\ pc' = "done"
                        /\ UNCHANGED reports
                   ELSE IF ~write_ok
                   THEN /\ outcome' = "report_error" /\ returned' = "raised"
                        /\ pc' = "done"
                        /\ UNCHANGED << reports, log >>
                   ELSE /\ reports' = Append(reports,
                                        make_report(l.df_newer, l.df_older, l.new_entries))
                        /\ log' = Append(log, "Detailed report saved")
                        /\ pc' = "form_loop"
                        /\ UNCHANGED << outcome, returned >>
    /\ UNCHANGED << newer_file, older_file, entry_i, handed, submission, main_vars >>

\* One iteration of the form loop: the prompt for entry entry_i + 1 and, on
\* 'y', the call of submit_to_form_with_xpaths with entry.to_dict(); run is
\* what the browser and the user do during that call.
ProcessEntry ==
    /\ pc = "form_loop"
    /\ UNCHANGED scraper_vars
    /\ entry_i < len(new_entries)
    /\ \E confirmed \in { lower(submit_choice) = << "y" >> : submit_choice \in Answers } :
         IF confirmed
         THEN \E form \in { submit_to_form_with_xpaths(run) : run \in FormRuns } :
                 /\ handed' = Append(handed, to_dict(new_entries, entry_i + 1))
                 /\ submission' = [entry |-> entry_i + 1, confirmed |-> TRUE, form |-> form]
         ELSE /\ handed' = handed
              /\ submission' = [entry |-> entry_i + 1, confirmed |-> FALSE, form |-> NotCalled]
    /\ entry_i' = entry_i + 1
    /\ IF entry_i + 1 = len(new_entries)
       THEN pc' = "done" /\ outcome' = "ok" /\ returned' = "None"
       ELSE UNCHANGED << pc, outcome, returned >>
    /\ UNCHANGED << newer_file, older_file, df_newer, df_older, key_columns, warned,
                    new_entries, reports, log, main_vars >>

Next == CompareExcelFiles \/ ProcessEntry

Spec == Init /\ [][Next]_vars

-----------------------------------------------------------------------------
(* identify_key_columns applied to one snapshot *)

KeySchemas ==
    { << col_id >>, << col_Area >>,
      << col_id, col_Area >>, << col_Notes, col_id >>, << col_Area, col_Notes >>,
      << col_Price, col_Area >>,
      << col_id, col_Notes, col_Area >>, << col_Area, col_Notes, col_id >>,
      << col_Area, col_id, col_Price >> }

InitKey ==
    /\ \E cols \in KeySchemas : df_newer \in Frames(cols, MaxRows)
    /\ newer_file = File(df_newer)
    /\ older_file = Unreadable
    /\ pc = "infer"
    /\ df_older = NoFrame
    /\ key_columns = NoKey
    /\ warned = FALSE
    /\ new_entries = NoFrame
    /\ reports = << >>
    /\ entry_i = 0
    /\ handed = << >>
    /\ submission = NoSubmission
    /\ outcome = "none"
    /\ returned = "running"
    /\ log = << >>
    /\ NoMain
    /\ NoScraper

IdentifyKeyColumns ==
    /\ pc = "infer"
    /\ UNCHANGED scraper_vars
    /\ LET k == identify_key_columns(df_newer)
       IN  key_columns' = k.ret /\ warned' = k.warning
    /\ pc' = "inferred"
    /\ UNCHANGED << newer_file, older_file, df_newer, df_older, new_entries, reports,
                    entry_i, handed, submission, outcome, returned, log, main_vars >>

NextKey == IdentifyKeyColumns

SpecKey == InitKey /\ [][NextKey]_vars

-----------------------------------------------------------------------------
(* download_vacant_sites_file, find_previous_excel_file and main *)

\* filename = f"{date_prefix}_ura-vacant-sites.xlsx"
output_path_of(date) == FileName(<< date >>, "", "xlsx")

\* Faulty variant of temp_path_of: the body is written to the final path.
temp_path_direct(output_path) == output_path

\* temp_path = output_path + ".tmp"
temp_path_of(output_path) == [output_path EXCEPT !.ext = "xlsx.tmp"]

\* Faulty variant of exists: today's file is never found.
exists_never(path) == FALSE

exists(path) == \E e \in store : e.name = path

\* What pd.read_excel(path) finds; a missing file raises inside the try.
read_excel(path) ==
    IF exists(path) THEN (CHOOSE e \in store : e.name = path).content ELSE Unreadable

\* The names matching "*ura-vacant-sites*.xlsx".
glob(files) == { e.name : e \in { x \in files : x.name.ext = "xlsx" } }

datetime_min == 0

\* re.search(r'(\d{8})_') and strptime; datetime.min without a stamp.
extract_date(filename) ==
    IF filename.stamp # << >> THEN filename.stamp[1] ELSE datetime_min

\* sorted(excel_files, key=extract_date, reverse=True): a stable sort, files
\* of equal date keep the order glob gave them.
RECURSIVE sorted_reverse(_)
sorted_reverse(excel_files) ==
    IF excel_files = << >> THEN << >>
    ELSE LET x    == Head(excel_files)
             rest == sorted_reverse(Tail(excel_files))
         IN  SelectSeq(rest, LAMBDA f : extract_date(f) > extract_date(x))
             \o << x >>
             \o SelectSeq(rest, LAMBDA f : extract_date(f) <= extract_date(x))

\* find_previous_excel_file on the list glob returned: the value returned and
\* the lines printed.
find_previous_excel_file(current_file, excel_files) ==
    IF Len(excel_files) <= 1
    THEN [ret |-> NoneFile,
          printed |-> << "No previous Excel files found for comparison" >>]
    ELSE LET sorted_files == sorted_reverse(excel_files) IN
         IF current_file \notin Range(sorted_files)
         THEN [ret |-> IF current_file # sorted_files[1] THEN sorted_files[1]
                       ELSE IF Len(sorted_files) > 1 THEN sorted_files[2]
                       ELSE NoneFile,
               printed |-> << >>]
         ELSE LET current_index == Pos(sorted_files, current_file) IN
              IF current_index < Len(sorted_files)
              THEN [ret |-> sorted_files[current_index + 1], printed |-> << >>]
              ELSE [ret |-> NoneFile, printed |-> << "No previous file found" >>]

truthy_always(path) == TRUE

\* `if new_file:` and `if previous_file:` of main.
truthy(path) == path # NoneFile

\* The files DOWNLOAD_DIR may hold before the run, and what a download brings.
StoreNames ==
    { FileName(<< d >>, suffix, "xlsx") : d \in 1..MaxDate, suffix \in { "", "_copy" } }
        \cup { FileName(<< >>, "", "xlsx") }

StoreContents ==
    { File(DataFrame(<< col_id >>, << >>)),
      File(DataFrame(<< col_id >>, << << "5" >> >>)),
      Unreadable }

DownloadContents ==
    { File(DataFrame(<< col_id >>, << << "5" >>, << "7" >> >>)), Unreadable }

Stores ==
    UNION { { { [name |-> n, content |-> f[n], complete |-> TRUE] : n \in N } :
              f \in [N -> StoreContents] } :
            N \in { M \in SUBSET StoreNames : Cardinality(M) <= MaxFiles } }

\* compare_excel_files has not been called.
CompareIdle ==
    /\ newer_file = Unreadable
    /\ older_file = Unreadable
    /\ df_newer = NoFrame
    /\ df_older = NoFrame
    /\ key_columns = NoKey
    /\ warned = FALSE
    /\ new_entries = NoFrame
    /\ reports = << >>
    /\ entry_i = 0
    /\ handed = << >>
    /\ submission = NoSubmission
    /\ outcome = "none"
    /\ returned = "running"

InitMain ==
    /\ CompareIdle
    /\ pc = "download"
    /\ log = << >>
    /\ store \in Stores
    /\ today \in 1..MaxDate
    /\ new_file = NoneFile
    /\ previous_file = NoneFile
    /\ NoScraper

\* download_vacant_sites_file up to the response of the server: today's file
\* is found and returned, or the request is sent and fails or succeeds.
DownloadVacantSitesFile ==
    /\ pc = "download"
    /\ UNCHANGED scraper_vars
    /\ IF exists(output_path_of(today))
       THEN /\ new_file' = output_path_of(today)
            /\ log' = Append(log, "Today's file already exists")
            /\ pc' = "main_new_file"
       ELSE \E request_ok \in BOOLEAN :
               IF request_ok
               THEN /\ log' = Append(log, "Downloading from")
                    /\ pc' = "download_write"
                    /\ UNCHANGED new_file
               ELSE /\ log' = log \o << "Downloading from", "Error during download" >>
                    /\ new_file' = NoneFile
                    /\ pc' = "main_new_file"
    /\ UNCHANGED << compare_vars, store, today, previous_file >>

\* with open(temp_path, 'wb') as file: file.write(response.content). content
\* is the body the server sent; the write goes through, or open fails, or
\* the write fails and leaves a part of the body in the .tmp file.
DownloadWrite ==
    /\ pc = "download_write"
    /\ UNCHANGED scraper_vars
    /\ LET temp_path == temp_path_of(output_path_of(today))
           others    == { e \in store : e.name # temp_path }
       IN  \E content \in DownloadContents, result \in { "written", "open_failed", "write_failed" } :
              IF result = "written"
              THEN /\ store' = others \cup
                                { [name |-> temp_path, content |-> content, complete |-> TRUE] }
                   /\ pc' = "download_rename"
                   /\ UNCHANGED << new_file, log >>
              ELSE /\ store' = IF result = "open_failed" THEN store
                               ELSE others \cup { [name |-> temp_path, content |-> Unreadable,
                                                   complete |-> FALSE] }
                   /\ log' = Append(log, "Error during download")
                   /\ new_file' = NoneFile
                   /\ pc' = "main_new_file"
    /\ UNCHANGED << compare_vars, today, previous_file >>

\* os.rename(temp_path, output_path) and the return.
DownloadRename ==
    /\ pc = "download_rename"
    /\ UNCHANGED scraper_vars
    /\ LET output_path == output_path_of(today)
           temp_path   == temp_path_of(output_path)
           written     == CHOOSE e \in store : e.name = temp_path
       IN  \E rename_ok \in BOOLEAN :
              IF rename_ok
              THEN /\ store' = { e \in store : e.name \notin { temp_path, output_path } }
                                \cup { [written EXCEPT !.name = output_path] }
                   /\ log' = Append(log, "File saved successfully")
                   /\ new_file' = output_path
              ELSE /\ log' = Append(log, "Error during download")
                   /\ new_file' = NoneFile
                   /\ UNCHANGED store
    /\ pc' = "main_new_file"
    /\ UNCHANGED << compare_vars, today, previous_file >>

\* main, line 558: `if new_file:`.
MainIfNewFile ==
    /\ pc = "main_new_file"
    /\ UNCHANGED scraper_vars
    /\ IF truthy(new_file)
       THEN pc' = "find_previous" /\ UNCHANGED log
       ELSE /\ pc' = "done"
            /\ log' = Append(log, "Download failed. Cannot perform comparison.")
    /\ UNCHANGED << compare_vars, main_vars >>

\* previous_file = find_previous_excel_file(new_file); glob lists the matching
\* files in an order the file system chooses.
FindPreviousExcelFile ==
    /\ pc = "find_previous"
    /\ UNCHANGED scraper_vars
    /\ \E excel_files \in Perms(glob(store)) :
          \E r \in { find_previous_excel_file(new_file, excel_files) } :
             /\ previous_file' = r.ret
             /\ log' = log \o r.printed
    /\ pc' = "main_previous_file"
    /\ UNCHANGED << compare_vars, store, today, new_file >>

\* main, line 562: `if previous_file:`, then the call of compare_excel_files.
MainIfPreviousFile ==
    /\ pc = "main_previous_file"
    /\ UNCHANGED scraper_vars
    /\ IF truthy(previous_file)
       THEN /\ pc' = "compare"
            /\ newer_file' = read_excel(new_file)
            /\ older_file' = read_excel(previous_file)
            /\ UNCHANGED log
       ELSE /\ pc' = "done"
            /\ log' = Append(log, "No previous file found for comparison.")
            /\ UNCHANGED << newer_file, older_file >>
    /\ UNCHANGED << df_newer, df_older, key_columns, warned, new_entries, reports,
                    entry_i, handed, submission, outcome, returned, main_vars >>

NextMain ==
    \/ DownloadVacantSitesFile
    \/ DownloadWrite
    \/ DownloadRename
    \/ MainIfNewFile
    \/ FindPreviousExcelFile
    \/ MainIfPreviousFile
    \/ CompareExcelFiles
    \/ ProcessEntry

SpecMain == InitMain /\ [][NextMain]_vars

-----------------------------------------------------------------------------
(* find_previous_excel_file applied to any current file and any directory *)

InitPrev ==
    /\ CompareIdle
    /\ pc = "find_previous"
    /\ log = << >>
    /\ store \in Stores
    /\ today = 1
    /\ new_file \in StoreNames
    /\ previous_file = NoneFile
    /\ NoScraper

NextPrev == FindPreviousExcelFile

SpecPrev == InitPrev /\ [][NextPrev]_vars

-----------------------------------------------------------------------------
(* URAScraper.run: fetch_main_page, parse_main_page, fetch_project_details, *)
(* save_data                                                                *)

status_Awarded == << "A", "w", "a", "r", "d", "e", "d" >>

status_Open == << "O", "p", "e", "n" >>

\* The status texts a listing page may show.
Statuses == { status_Awarded, << "a", "w", "a", "r", "d", "e", "d" >>, status_Open }

\* A parsed site: its 'Status' text, whether it has a 'Link', and what
\* fetch_project_details stored under 'details'.
Site(Status, Link, details) == [Status |-> Status, Link |-> Link, details |-> details]

RECURSIVE SiteSeqs(_)
SiteSeqs(n) ==
    IF n = 0 THEN { << >> }
    ELSE SiteSeqs(n - 1) \cup
         { Append(s, Site(st, l, "none")) :
             s \in { q \in SiteSeqs(n - 1) : Len(q) = n - 1 },
             st \in Statuses, l \in BOOLEAN }

\* Faulty variant of is_awarded: every site counts as awarded.
is_awarded_always(site) == TRUE

\* site['Status'].lower() == 'awarded'
is_awarded(site) == lower(site.Status) = << "a", "w", "a", "r", "d", "e", "d" >>

\* fetch_project_details: a request for each awarded site with a link;
\* request_ok[i] tells whether the request for site i went through.
fetch_project_details(sites, request_ok) ==
    [i \in DOMAIN sites |->
        IF is_awarded(sites[i]) /\ sites[i].Link
        THEN [sites[i] EXCEPT !.details = IF request_ok[i] THEN "followed_link" ELSE "error"]
        ELSE sites[i]]

InitScraper ==
    /\ CompareIdle
    /\ NoMain
    /\ log = << >>
    /\ pc = "fetch_main_page"
    /\ sites_data = << >>
    /\ steps = << >>
    /\ saved = "none"
    /\ run_returned = "running"

\* html = self.fetch_main_page(); if not html: return False
FetchMainPage ==
    /\ pc = "fetch_main_page"
    /\ steps' = Append(steps, "fetch_main_page")
    /\ \E html_ok \in BOOLEAN :
          IF html_ok
          THEN pc' = "parse_main_page" /\ UNCHANGED run_returned
          ELSE pc' = "done" /\ run_returned' = "False"
    /\ UNCHANGED << log, compare_vars, main_vars, sites_data, saved >>

\* sites_data = self.parse_main_page(html); if not sites_data: return False
ParseMainPage ==
    /\ pc = "parse_main_page"
    /\ steps' = Append(steps, "parse_main_page")
    /\ \E parsed \in SiteSeqs(MaxSites) :
          /\ sites_data' = parsed
          /\ IF parsed = << >>
             THEN pc' = "done" /\ run_returned' = "False"
             ELSE pc' = "awarded_sites" /\ UNCHANGED run_returned
    /\ UNCHANGED << log, compare_vars, main_vars, saved >>

\* awarded_sites = [...]; if awarded_sites: sites_data =
\* self.fetch_project_details(sites_data)
FetchProjectDetails ==
    /\ pc = "awarded_sites"
    /\ IF \E i \in DOMAIN sites_data : is_awarded(sites_data[i])
       THEN /\ steps' = Append(steps, "fetch_project_details")
            /\ \E request_ok \in [DOMAIN sites_data -> BOOLEAN] :
                  sites_data' = fetch_project_details(sites_data, request_ok)
       ELSE UNCHANGED << steps, sites_data >>
    /\ pc' = "save_data"
    /\ UNCHANGED << log, compare_vars, main_vars, saved, run_returned >>

\* success = self.save_data(sites_data); return success
SaveData ==
    /\ pc = "save_data"
    /\ steps' = Append(steps, "save_data")
    /\ \E success \in { "True", "False" } :
          saved' = success /\ run_returned' = success
    /\ pc' = "done"
    /\ UNCHANGED << log, compare_vars, main_vars, sites_data >>

NextScraper == FetchMainPage \/ ParseMainPage \/ FetchProjectDetails \/ SaveData

SpecScraper == InitScraper /\ [][NextScraper]_vars

-----------------------------------------------------------------------------
(* Vocabulary of the properties *)

Newer == newer_file.data

Older == older_file.data

BothLoaded == newer_file.readable /\ older_file.readable

\* compare_excel_files got past the diff (line 491).
DiffComputed == pc \in { "form_loop", "done" } /\ outcome \notin { "load_error", "ValueError" }

Cell(df, r, c) == df.rows[r][Pos(df.cols, c)]

KeyTuple(df, r) == [p \in DOMAIN key_columns.names |-> Cell(df, r, key_columns.names[p])]

KeyInOlder(r) == \E q \in 1..len(Older) : KeyTuple(Older, q) = KeyTuple(Newer, r)

\* Labels (0-based row numbers of the newer snapshot) of the reported rows.
ReportedLabels == Range(new_entries.index)

\* c holds a non-missing value in every row of df and no value twice.
DistinctInEveryRow(df, c) ==
    /\ \A r \in 1..len(df) : Cell(df, r, c) # NaN
    /\ \A r, q \in 1..len(df) : r # q => Cell(df, r, c) # Cell(df, q, c)

\* No two rows of df agree on all of the columns names (a missing cell
\* counted as a value).
RowsDistinctOn(df, names) ==
    \A r, q \in 1..len(df) :
        r # q => \E p \in DOMAIN names : Cell(df, r, names[p]) # Cell(df, q, names[p])

\* The names of the model's columns that contain one of the id patterns:
\* "id" itself and "Notes" (it contains "no").
CandidateNamed(c) == c \in { col_id, col_Notes }

-----------------------------------------------------------------------------
(* C1: once the diff is computed, the reported rows are exactly the rows of *)
(* the newer snapshot whose key tuple (the values of the chosen key columns) *)
(* equals the key tuple of no row of the older snapshot, and each reported  *)
(* row is the row of the newer snapshot that its label names.               *)
C1_NewEntriesExact ==
    DiffComputed =>
        /\ ReportedLabels = { r - 1 : r \in { x \in 1..len(Newer) : ~KeyInOlder(x) } }
        /\ \A k \in DOMAIN new_entries.rows :
             \A c \in Range(new_entries.cols) :
                Cell(new_entries, k, c) = Cell(Newer, new_entries.index[k] + 1, c)

\* A diff that reports one row and holds back another whose key is in the older snapshot.
C1_Witness ==
    /\ DiffComputed
    /\ len(Newer) = 2
    /\ len(new_entries) = 1
    /\ \E r \in 1..len(Newer) : KeyInOlder(r)

-----------------------------------------------------------------------------
\* The newer snapshot is the older one followed by appended rows, both have
\* the same columns, and column id holds a distinct value in every row.
AppendedRows ==
    /\ BothLoaded
    /\ Range(Newer.cols) = Range(Older.cols)
    /\ col_id \in Range(Newer.cols)
    /\ DistinctInEveryRow(Newer, col_id)
    /\ len(Older) <= len(Newer)
    /\ \A r \in 1..len(Older) : \A c \in Range(Newer.cols) : Cell(Older, r, c) = Cell(Newer, r, c)

ExactlyAppendedReported ==
    /\ outcome # "ValueError"
    /\ new_entries.index = [k \in 1..(len(Newer) - len(Older)) |-> len(Older) + k - 1]
    /\ \A k \in DOMAIN new_entries.rows :
         \A c \in Range(Newer.cols) : Cell(new_entries, k, c) = Cell(Newer, len(Older) + k, c)

\* The first column of the newer snapshot, in column order, that is
\* candidate-named and holds a distinct non-missing value in every row.
FirstDistinctCandidate ==
    Newer.cols[CHOOSE i \in DOMAIN Newer.cols :
        /\ CandidateNamed(Newer.cols[i]) /\ DistinctInEveryRow(Newer, Newer.cols[i])
        /\ \A j \in 1..(i - 1) :
             ~(CandidateNamed(Newer.cols[j]) /\ DistinctInEveryRow(Newer, Newer.cols[j]))]

(* C2 as stated: with appended rows, equal columns and a column id that is  *)
(* distinct in every row of the newer snapshot, the key returned is [id]    *)
(* and the diff yields exactly the appended rows. (Stated for the snapshots *)
(* where the older one has a row and a row was appended, as in Scenario A.) *)
C2_AsStated ==
    (AppendedRows /\ pc # "compare" /\ 1 <= len(Older) /\ len(Older) < len(Newer)) =>
        /\ key_columns = AsList(<< col_id >>)
        /\ ExactlyAppendedReported

(* C2 amended: under the same conditions the key returned is the list of    *)
(* the one column that comes first in column order among the candidate-     *)
(* named columns holding a distinct non-missing value in every row (it is   *)
(* [id] when no candidate-named column before id is such a column), and the *)
(* diff yields exactly the appended rows, in order.                         *)
C2_AppendedRowsDetected ==
    (AppendedRows /\ pc # "compare") =>
        /\ key_columns = AsList(<< FirstDistinctCandidate >>)
        /\ (~(\E i \in 1..(Pos(Newer.cols, col_id) - 1) :
                 CandidateNamed(Newer.cols[i]) /\ DistinctInEveryRow(Newer, Newer.cols[i]))
              => key_columns = AsList(<< col_id >>))
        /\ ExactlyAppendedReported

\* One row appended to a one-row snapshot of two columns; id is the key.
C2_Witness ==
    /\ AppendedRows /\ pc # "compare"
    /\ len(Older) = 1 /\ len(Newer) = 2
    /\ Len(Newer.cols) = 2
    /\ key_columns = AsList(<< col_id >>)
    /\ new_entries.index = << 1 >>

-----------------------------------------------------------------------------
(* C3: a snapshot diffed against itself yields no new row, writes no report *)
(* and hands nothing to the form, also when rows of it share their key.     *)
C3_SelfDiffEmpty ==
    (BothLoaded /\ Older = Newer /\ pc # "compare") =>
        /\ outcome = "ok"
        /\ len(new_entries) = 0
        /\ reports = << >>
        /\ handed = << >>

\* A two-column snapshot diffed against itself in which two rows have the same key.
C3_Witness ==
    /\ BothLoaded /\ Older = Newer /\ pc = "done"
    /\ Len(Newer.cols) = 2
    /\ len(Newer) = 2
    /\ KeyTuple(Newer, 1) = KeyTuple(Newer, 2)

-----------------------------------------------------------------------------
(* C4: the new entries are a subsequence of the newer snapshot's rows in    *)
(* their original order: their row labels increase strictly and each entry  *)
(* is the row of the newer snapshot at its label.                           *)
C4_OrderPreserved ==
    DiffComputed =>
        /\ \A k \in DOMAIN new_entries.index :
             /\ new_entries.index[k] \in 0..(len(Newer) - 1)
             /\ k > 1 => new_entries.index[k - 1] < new_entries.index[k]
        /\ \A k \in DOMAIN new_entries.rows :
             \A c \in Range(new_entries.cols) :
                Cell(new_entries, k, c) = Cell(Newer, new_entries.index[k] + 1, c)

\* Two new entries with different keys.
C4_Witness ==
    /\ DiffComputed
    /\ len(new_entries) = 2
    /\ KeyTuple(Newer, 1) # KeyTuple(Newer, 2)
    /\ len(Older) = 1

-----------------------------------------------------------------------------
(* C5: rows of the newer snapshot that share a key absent from the older    *)
(* snapshot are all reported; none is dropped as a duplicate.               *)
C5_NoDeduplication ==
    DiffComputed =>
        \A r, q \in 1..len(Newer) :
            (r # q /\ KeyTuple(Newer, r) = KeyTuple(Newer, q) /\ ~KeyInOlder(r)) =>
                /\ { r - 1, q - 1 } \subseteq ReportedLabels
                /\ len(new_entries) >= 2

\* id "5" twice in the newer snapshot and not in the older one: both reported.
C5_Witness ==
    /\ DiffComputed
    /\ Newer.cols = << col_id >>
    /\ Newer.rows = << << "5" >>, << "5" >> >>
    /\ len(Older) = 1
    /\ new_entries.index = << 0, 1 >>

-----------------------------------------------------------------------------
(* C6 as stated: when the newer snapshot has a column the older one lacks,  *)
(* the key is computed on the common columns only, and every row of the     *)
(* report's detail table and every entry handed to the form carries all     *)
(* columns of the newer snapshot.                                           *)
C6_AsStated ==
    (BothLoaded /\ Range(Newer.cols) \ Range(Older.cols) # {} /\ reports # << >>) =>
        /\ Range(key_columns.names) \subseteq Range(Newer.cols) \cap Range(Older.cols)
        /\ Range(reports[1].detail.cols) = Range(Newer.cols)
        /\ \A i \in DOMAIN handed : DOMAIN handed[i] = Range(Newer.cols)

-----------------------------------------------------------------------------
(* C7 as stated: when the snapshots share no column name, the comparison    *)
(* still ends normally (zero new rows or a full-row comparison), never in   *)
(* an unhandled failure.                                                    *)
C7_AsStated ==
    (BothLoaded /\ Range(Newer.cols) \cap Range(Older.cols) = {} /\ pc = "done") =>
        outcome = "ok"

-----------------------------------------------------------------------------
\* identify_key_columns has returned for a snapshot in which some column has
\* as many distinct values as there are rows.
InferredWithUniqueColumn ==
    /\ pc = "inferred"
    /\ \E i \in DOMAIN df_newer.cols : DistinctInEveryRow(df_newer, df_newer.cols[i])

-----------------------------------------------------------------------------
(* C9 as stated: for two snapshots of zero rows and non-empty column sets,  *)
(* a key is returned without raising and the diff yields zero new rows, no  *)
(* report and no form submission.                                           *)
C9_AsStated ==
    (/\ BothLoaded /\ pc = "done"
     /\ len(Newer) = 0 /\ len(Older) = 0
     /\ Newer.cols # << >> /\ Older.cols # << >>) =>
        /\ outcome = "ok"
        /\ key_columns.names # << >>
        /\ len(new_entries) = 0
        /\ reports = << >>
        /\ handed = << >>

-----------------------------------------------------------------------------
(* C10 as stated: identify_key_columns returns a non-empty list of column   *)
(* names of the snapshot and, unless it took the full-column-set fallback   *)
(* (the one that prints the warning), no two rows of the snapshot have the  *)
(* same values in the returned columns.                                     *)
C10_AsStated ==
    pc = "inferred" =>
        /\ key_columns.type = "list"
        /\ key_columns.names # << >>
        /\ Range(key_columns.names) \subseteq Range(df_newer.cols)
        /\ ~warned => RowsDistinctOn(df_newer, key_columns.names)

-----------------------------------------------------------------------------
(* C11 as stated: a comparison of snapshots whose column sets differ is     *)
(* never aborted; when it has ended, the key columns used for the diff are  *)
(* columns of both snapshots.                                               *)
C11_AsStated ==
    (BothLoaded /\ Range(Newer.cols) # Range(Older.cols) /\ pc = "done") =>
        /\ outcome # "ValueError"
        /\ Range(key_columns.names) \subseteq Range(Newer.cols) \cap Range(Older.cols)

-----------------------------------------------------------------------------
(* C12 as stated: when a snapshot cannot be loaded, compare_excel_files     *)
(* ends without raising, with no report and no form submission, and gives   *)
(* its caller something other than the None a successful comparison gives.  *)
C12_AsStated ==
    (pc = "done" /\ ~BothLoaded) =>
        /\ returned # "raised"
        /\ reports = << >>
        /\ handed = << >>
        /\ returned # "None"

-----------------------------------------------------------------------------
\* The stored snapshot files dated strictly before the current file.
EarlierStored == { f \in glob(store) : extract_date(f) < extract_date(new_file) }

(* C13 as stated: the file returned is a stored file of the greatest date   *)
(* strictly earlier than the current file's date, and none is returned      *)
(* exactly when no stored file is earlier. (Stated for the directories in   *)
(* which the current file is stored and every stored file has a date        *)
(* stamp.)                                                                  *)
C13_AsStated ==
    (/\ pc = "main_previous_file"
     /\ new_file \in glob(store)
     /\ \A f \in glob(store) : f.stamp # << >>) =>
        IF EarlierStored = {}
        THEN previous_file = NoneFile
        ELSE /\ previous_file \in EarlierStored
             /\ \A f \in EarlierStored : extract_date(f) <= extract_date(previous_file)

-----------------------------------------------------------------------------
\* compare_excel_files has been called.
ComparisonStarted ==
    pc \in { "compare", "form_loop" } \/ outcome # "none" \/ returned # "running"

\* main has ended after a download and without a previous snapshot.
FirstRunEnded == pc = "done" /\ new_file # NoneFile /\ previous_file = NoneFile

(* C14: in main, compare_excel_files is called only when the download has   *)
(* returned today's snapshot path and find_previous_excel_file has returned *)
(* a stored file; a run that finds no previous snapshot ends without        *)
(* comparison, report or form submission, its last printed line is the      *)
(* no-previous-file message, which a failed download and a load error never *)
(* print, and a directory holding no other snapshot than the downloaded one *)
(* always ends so.                                                          *)
C14_ComparisonOnlyWithBoth ==
    /\ ComparisonStarted =>
          /\ new_file = output_path_of(today)
          /\ exists(new_file)
          /\ previous_file \in glob(store)
    /\ FirstRunEnded =>
          /\ ~ComparisonStarted
          /\ reports = << >>
          /\ handed = << >>
          /\ log # << >>
          /\ log[Len(log)] = "No previous file found for comparison."
          /\ "Download failed. Cannot perform comparison." \notin Range(log)
          /\ "Error loading Excel files" \notin Range(log)
    /\ (pc = "done" /\ new_file = NoneFile) =>
          /\ log[Len(log)] = "Download failed. Cannot perform comparison."
          /\ "No previous file found for comparison." \notin Range(log)
    /\ outcome = "load_error" =>
          "No previous file found for comparison." \notin Range(log)
    /\ (pc = "done" /\ new_file # NoneFile /\ glob(store) \ { new_file } = {}) =>
          FirstRunEnded

\* A first run: the snapshot was downloaded into a directory that held no
\* snapshot, and main has ended.
C14_Witness ==
    /\ FirstRunEnded
    /\ "File saved successfully" \in Range(log)
    /\ glob(store) = { new_file }

-----------------------------------------------------------------------------
(* C15 as stated: when writing the report fails after the diff was          *)
(* computed, compare_excel_files still returns to its caller and no         *)
(* exception leaves it.                                                     *)
C15_AsStated ==
    (pc = "done" /\ BothLoaded /\ len(new_entries) > 0 /\ reports = << >>) =>
        returned # "raised"

-----------------------------------------------------------------------------
\* The candidate-named columns of df, in column order.
CandidateColumns(df) == SelectSeq(df.cols, CandidateNamed)

(* C16 as stated: when no candidate-named column alone is unique but the    *)
(* candidate columns together tell every two rows apart, the key returned   *)
(* is a list of at least two candidate columns that tells every two rows    *)
(* apart. (Stated for snapshots of at least two rows.)                      *)
C16_AsStated ==
    (/\ pc = "inferred"
     /\ len(df_newer) >= 2
     /\ Len(CandidateColumns(df_newer)) >= 2
     /\ \A c \in Range(CandidateColumns(df_newer)) : ~DistinctInEveryRow(df_newer, c)
     /\ RowsDistinctOn(df_newer, CandidateColumns(df_newer))) =>
        /\ key_columns.type = "list"
        /\ Len(key_columns.names) >= 2
        /\ Range(key_columns.names) \subseteq Range(CandidateColumns(df_newer))
        /\ RowsDistinctOn(df_newer, key_columns.names)

-----------------------------------------------------------------------------
\* Some candidate-named column of the snapshot holds a distinct non-missing
\* value in every row.
SomeCandidateUnique ==
    \E c \in Range(df_newer.cols) : CandidateNamed(c) /\ DistinctInEveryRow(df_newer, c)

(* C17: the candidate columns are the columns whose name contains one of    *)
(* the identifier patterns whatever its case (id, and Notes through "no",   *)
(* not Area), and when a candidate column is unique the key returned is the *)
(* list of the first unique candidate in column order alone, without a      *)
(* warning, wherever the non-candidate columns stand.                       *)
C17_CandidatePriority ==
    pc = "inferred" =>
        /\ potential_keys(df_newer) = CandidateColumns(df_newer)
        /\ SomeCandidateUnique =>
              /\ key_columns = AsList(<< FirstDistinctCandidate >>)
              /\ ~warned

\* The unique non-candidate column Area comes first, the key is [Notes].
C17_Witness ==
    /\ pc = "inferred"
    /\ len(df_newer) = 2
    /\ df_newer.cols[1] = col_Area
    /\ DistinctInEveryRow(df_newer, col_Area)
    /\ key_columns = AsList(<< col_Notes >>)

-----------------------------------------------------------------------------
\* The steps on the candidate columns return nothing: no candidate column is
\* unique, and there are fewer than two candidates or every candidate holds
\* the same cell in two rows.
NoCandidateKey ==
    /\ ~SomeCandidateUnique
    /\ \/ Len(CandidateColumns(df_newer)) < 2
       \/ \A c \in Range(CandidateColumns(df_newer)) : ~RowsDistinctOn(df_newer, << c >>)

\* The first column, in column order, holding a distinct non-missing value
\* in every row.
FirstDistinctColumn ==
    df_newer.cols[CHOOSE i \in DOMAIN df_newer.cols :
        /\ DistinctInEveryRow(df_newer, df_newer.cols[i])
        /\ \A j \in 1..(i - 1) : ~DistinctInEveryRow(df_newer, df_newer.cols[j])]

(* C18: when the steps on the candidate columns return no key and some      *)
(* column has as many distinct values as there are rows, the key returned   *)
(* is the one-element list of the first such column in column order,        *)
(* without a warning.                                                       *)
C18_FirstUniqueColumn ==
    (/\ pc = "inferred"
     /\ NoCandidateKey
     /\ \E c \in Range(df_newer.cols) : DistinctInEveryRow(df_newer, c)) =>
        /\ key_columns = AsList(<< FirstDistinctColumn >>)
        /\ ~warned

\* Price and Area are both unique and the candidate id between them is not:
\* the key is [Area], the first of the two.
C18_Witness ==
    /\ pc = "inferred"
    /\ df_newer.cols = << col_Area, col_id, col_Price >>
    /\ len(df_newer) = 2
    /\ DistinctInEveryRow(df_newer, col_Price)
    /\ key_columns = AsList(<< col_Area >>)

-----------------------------------------------------------------------------
\* Row r of df_newer and row q of df_older hold the same cell in every
\* column of the restricted snapshots.
SameRow(r, q) ==
    \A c \in Range(df_newer.cols) : Cell(df_newer, r, c) = Cell(df_older, q, c)

-----------------------------------------------------------------------------
(* C20: once the diff is computed, the report is written (or the write was  *)
(* attempted and raised) iff there is at least one new entry; a written     *)
(* report is the only one, its summary holds the row counts of the newer    *)
(* and of the older snapshot and the number of new entries, and its detail  *)
(* table holds the new entries row by row in order; with no new entry no    *)
(* report is written, no prompt is issued and nothing is handed to the      *)
(* form.                                                                    *)
C20_ReportIffNewEntries ==
    DiffComputed =>
        /\ (reports # << >> \/ outcome = "report_error") <=> len(new_entries) > 0
        /\ Len(reports) <= 1
        /\ reports # << >> =>
              /\ reports[1].summary.rows_in_newer_file = len(Newer)
              /\ reports[1].summary.rows_in_older_file = len(Older)
              /\ reports[1].summary.new_entries_found = len(new_entries)
              /\ reports[1].detail.rows = new_entries.rows
              /\ reports[1].detail.cols = new_entries.cols
        /\ len(new_entries) = 0 =>
              /\ reports = << >>
              /\ pc = "done"
              /\ outcome = "ok"
              /\ entry_i = 0
              /\ handed = << >>

\* A report of one new entry out of two rows, against an older snapshot of
\* one row.
C20_Witness ==
    /\ DiffComputed
    /\ reports # << >>
    /\ len(Newer) = 2
    /\ len(Older) = 1
    /\ reports[1].summary.new_entries_found = 1

-----------------------------------------------------------------------------
(* C21: a prompt is issued only after the report was written; the k-th      *)
(* iteration of the form loop is about the k-th new entry; the submit       *)
(* button is clicked for an entry only if the user answered y to the prompt *)
(* of that entry and y to the final 'Submit the form?' prompt; a declined   *)
(* entry is not handed to the form and the loop goes on to the next entry,  *)
(* until every new entry has had its prompt.                                *)
C21_ConfirmationGated ==
    /\ (pc = "form_loop" \/ entry_i > 0) => reports # << >>
    /\ submission.entry = entry_i
    /\ entry_i <= len(new_entries)
    /\ submission.form.clicked =>
          /\ submission.confirmed
          /\ submission.form.asked
          /\ submission.form.yes
    /\ submission.confirmed =>
          /\ handed # << >>
          /\ handed[Len(handed)] = to_dict(new_entries, entry_i)
    /\ ~submission.confirmed => submission.form = NotCalled
    /\ (entry_i > 0 /\ ~submission.confirmed /\ entry_i < len(new_entries)) =>
          pc = "form_loop"
    /\ (pc = "done" /\ reports # << >>) => entry_i = len(new_entries)

\* The first new entry was declined, the second confirmed twice and its
\* submit button clicked.
C21_Witness ==
    /\ entry_i = 2
    /\ Len(handed) = 1
    /\ submission.confirmed
    /\ submission.form.clicked

-----------------------------------------------------------------------------
(* C25 as stated: after a call of submit_to_form_with_xpaths the browser    *)
(* it started is not left running, and no exception has left the call.      *)
C25_AsStated ==
    submission.confirmed =>
        /\ submission.form.driver # "open"
        /\ ~submission.form.raised

-----------------------------------------------------------------------------
\* DOWNLOAD_DIR holds a file with today's snapshot name.
TodayStored == \E e \in store : e.name = output_path_of(today)

(* C22: the only snapshot path a download returns is the one named by the   *)
(* current date, and when a file of that name is already stored, every step *)
(* of the run leaves the files of the directory as they are, and the        *)
(* download step returns that path without starting a request.              *)
C22_SameDayIdempotent ==
    [][ /\ new_file' \in { NoneFile, output_path_of(today) }
        /\ TodayStored =>
              /\ store' = store
              /\ pc = "download" =>
                    /\ new_file' = output_path_of(today)
                    /\ "Downloading from" \notin Range(log') ]_vars

\* The download step found today's file and returned its path.
C22_Witness ==
    /\ pc = "main_new_file"
    /\ TodayStored
    /\ new_file = output_path_of(today)
    /\ log = << "Today's file already exists" >>

-----------------------------------------------------------------------------
\* download_vacant_sites_file is between its existence test and its return.
Downloading == pc \in { "download_write", "download_rename" }

(* C24: every stored file that matches the snapshot pattern holds a         *)
(* complete body; while the download is under way and after it has failed   *)
(* (None returned) no file exists at today's snapshot path; and a path is   *)
(* returned only when today's file is stored; a partial body is only ever   *)
(* at the '.tmp' path, which the pattern does not match.                    *)
C24_DownloadAtomic ==
    /\ \A e \in store : e.name \in glob(store) => e.complete
    /\ \A e \in store : ~e.complete => (e.name.ext = "xlsx.tmp" /\ e.name \notin glob(store))
    /\ (Downloading \/ (new_file = NoneFile /\ pc # "download")) => ~TodayStored
    /\ new_file # NoneFile => TodayStored

\* The write failed half-way: the partial body is in the .tmp file, None was
\* returned.
C24_Witness ==
    /\ pc = "main_new_file"
    /\ new_file = NoneFile
    /\ \E e \in store : ~e.complete

-----------------------------------------------------------------------------
\* Some parsed site has the status 'awarded', in any case of the letters.
SomeAwarded ==
    \E i \in DOMAIN sites_data :
        sites_data[i].Status \in Statuses \ { status_Open }

-----------------------------------------------------------------------------
(* C26 as stated: for the pair of snapshots of the run, the rows reported   *)
(* are the ones obtained with every other order in which the set            *)
(* intersection may yield the common columns, and so are the key columns.   *)
(* (Stated for snapshots of at least one row each; the rows reported are    *)
(* compared first.)                                                         *)
C26_AsStated ==
    (BothLoaded /\ DiffComputed /\ len(Newer) >= 1 /\ len(Older) >= 1) =>
        \A common_columns \in Perms(Range(Newer.cols) \cap Range(Older.cols)) :
            /\ compare_locals(Newer, Older, common_columns).new_entries.index
                  = new_entries.index
            /\ compare_locals(Newer, Older, common_columns).key_columns.names
                  = key_columns.names

====
